---- MODULE Spec2Model ----
(***************************************************************************)
(* notion2pg: import of a Notion database into a PostgreSQL table.         *)
(*                                                                         *)
(* The module models src/notion2pg.py: the paginated fetch loop with       *)
(* throttling and exponential backoff (iter_database), the per-property    *)
(* normalisation (get_value), the per-column type inference (convert),     *)
(* the name sanitizer (sanitize_name) and the orchestration                *)
(* (sync_database) up to the single call of create_table.                  *)
(*                                                                         *)
(* Encoding of Python values                                               *)
(*   None            [k |-> "None"]                                        *)
(*   str             [k |-> "str",   v |-> sequence of code points]        *)
(*   int             [k |-> "int",   v |-> n]                              *)
(*   float           [k |-> "float", v |-> t]   the float t/10             *)
(*   bool            [k |-> "bool",  v |-> b]                              *)
(*   list            [k |-> "list",  v |-> sequence of values]             *)
(*   tuple           [k |-> "tuple", v |-> sequence of values]             *)
(* The closed vocabulary of JSON "type"/"object" tags and of PostgreSQL    *)
(* type names is written with TLA+ strings; a tag stored in a Python       *)
(* tuple is [k |-> "tag", v |-> tag].  Free text (labels, dates, urls,     *)
(* identifiers) is a sequence of Unicode code points, so that regular      *)
(* expressions, suffix tests, sorting and sanitizing are computed.         *)
(***************************************************************************)
EXTENDS Integers, Sequences, FiniteSets, TLC

(***************************************************************************)
(* Program constants (src/notion2pg.py, lines 82-84).                      *)
(***************************************************************************)
DELAY == 1
RETRIES == 10
BACKOFF == 2

(***************************************************************************)
(* Python values.                                                          *)
(***************************************************************************)
None == [k |-> "None"]
PyStr(s) == [k |-> "str", v |-> s]
PyInt(n) == [k |-> "int", v |-> n]
PyFloat(t) == [k |-> "float", v |-> t]
PyBool(b) == [k |-> "bool", v |-> b]
PyList(s) == [k |-> "list", v |-> s]
PyTuple(s) == [k |-> "tuple", v |-> s]
PyTag(t) == [k |-> "tag", v |-> t]

\* The outcome of a call: a returned value, or a raised exception.
Return(x) == [exc |-> "None", value |-> x]
Raise(e) == [exc |-> e, value |-> None]

Range(s) == {s[i] : i \in DOMAIN s}

(***************************************************************************)
(* Text constants, as code points.                                         *)
(***************************************************************************)
S_id == <<105, 100>>                                    \* "id"
MIDNIGHT_SUFFIX ==                                      \* "T00:00:00.000+00:00"
    <<84, 48, 48, 58, 48, 48, 58, 48, 48, 46, 48, 48, 48, 43, 48, 48, 58, 48, 48>>
SECURE_HOST ==                                          \* "/secure.notion-static.com/"
    <<47, 115, 101, 99, 117, 114, 101, 46, 110, 111, 116, 105, 111, 110, 45,
      115, 116, 97, 116, 105, 99, 46, 99, 111, 109, 47>>

(***************************************************************************)
(* String helpers of the Python runtime used by the program.               *)
(***************************************************************************)
IsDigit(c) == c \in 48..57

\* str.endswith
EndsWith(s, suffix) ==
    /\ Len(s) >= Len(suffix)
    /\ SubSeq(s, Len(s) - Len(suffix) + 1, Len(s)) = suffix

\* sub in s
Contains(s, sub) ==
    \E i \in 1..(Len(s) - Len(sub) + 1) : SubSeq(s, i, i + Len(sub) - 1) = sub

\* s.partition(chr(c))[0]
PartitionHead(s, c) ==
    IF \E i \in DOMAIN s : s[i] = c
    THEN LET first == CHOOSE i \in DOMAIN s :
                          s[i] = c /\ \A j \in 1..(i - 1) : s[j] # c
         IN  SubSeq(s, 1, first - 1)
    ELSE s

\* "".join(parts)
RECURSIVE Join(_)
Join(parts) == IF parts = <<>> THEN <<>> ELSE Head(parts) \o Join(Tail(parts))

\* Python's < on str: lexicographic by code point.
RECURSIVE StrLess(_, _)
StrLess(a, b) ==
    IF b = <<>> THEN FALSE
    ELSE IF a = <<>> THEN TRUE
    ELSE IF Head(a) # Head(b) THEN Head(a) < Head(b)
    ELSE StrLess(Tail(a), Tail(b))

\* Fault variant of DATE_RE_fullmatch: re.match, which accepts any prefix match.
DATE_RE_match(s) ==
    /\ Len(s) >= 10
    /\ \A i \in {1, 2, 3, 4, 6, 7, 9, 10} : IsDigit(s[i])
    /\ s[5] = 45 /\ s[8] = 45

\* DATE_RE.fullmatch(s), DATE_RE = [0-9]{4}-[0-9]{2}-[0-9]{2}
DATE_RE_fullmatch(s) ==
    /\ Len(s) = 10
    /\ \A i \in {1, 2, 3, 4, 6, 7, 9, 10} : IsDigit(s[i])
    /\ s[5] = 45 /\ s[8] = 45

\* maybe_date
maybe_date(value) ==
    IF value = None THEN None
    ELSE IF EndsWith(value.v, MIDNIGHT_SUFFIX)
         THEN PyStr(SubSeq(value.v, 1, Len(value.v) - 19))
         ELSE value

(***************************************************************************)
(* get_value: one raw Notion property value to a Python value.  The raw    *)
(* JSON is a record (object), a sequence (array) or a Python value (leaf). *)
(***************************************************************************)
FileUrl(f) ==
    LET url == f.file.url.v
    IN  PyStr(IF Contains(url, SECURE_HOST) THEN PartitionHead(url, 63) ELSE url)

PlainText(runs) ==
    LET s == Join([i \in DOMAIN runs |-> runs[i].plain_text.v])
    IN  IF s = <<>> THEN None ELSE PyStr(s)

GetValueFormula(formula) ==
    LET subtype == formula.type
    IN  CASE subtype = "string" -> Return(PyTuple(<<PyTag("string"), formula.string>>))
          [] subtype = "number" -> Return(PyTuple(<<PyTag("number"), formula.number>>))
          [] subtype = "date" ->
                IF formula.date = None
                THEN Return(PyTuple(<<PyTag("date"), PyTuple(<<None, None>>)>>))
                ELSE IF formula.date.time_zone # None THEN Raise("AssertionError")
                ELSE IF formula.date.end # None THEN Raise("AssertionError")
                ELSE Return(PyTuple(<<PyTag("date"),
                                      PyTuple(<<maybe_date(formula.date.start), None>>)>>))
          [] subtype = "boolean" -> Return(PyTuple(<<PyTag("boolean"), formula.boolean>>))
          [] OTHER -> Raise("NotImplementedError")

GetValueRollup(rollup) ==
    LET subtype == rollup.type
    IN  CASE subtype = "array" -> Return(PyTuple(<<PyTag("array"), PyList(<<>>)>>))
          [] subtype = "number" -> Return(PyTuple(<<PyTag("number"), rollup.number>>))
          [] subtype = "date" ->
                IF rollup.date = None
                THEN Return(PyTuple(<<PyTag("date"), PyTuple(<<None, None>>)>>))
                ELSE IF rollup.date.time_zone # None THEN Raise("AssertionError")
                ELSE Return(PyTuple(<<PyTag("date"),
                                      PyTuple(<<maybe_date(rollup.date.start),
                                                maybe_date(rollup.date.end)>>)>>))
          [] OTHER -> Raise("NotImplementedError")

GetValue(property) ==
    LET type_ == property.type
    IN  CASE type_ = "title" -> Return(PlainText(property.title))
          [] type_ = "rich_text" -> Return(PlainText(property.rich_text))
          [] type_ = "number" -> Return(property.number)
          [] type_ = "select" ->
                IF property.select = None THEN Return(None)
                ELSE Return(property.select.name)
          [] type_ = "multi_select" ->
                Return(PyList([i \in DOMAIN property.multi_select |->
                                   property.multi_select[i].name]))
          [] type_ = "date" ->
                IF property.date = None THEN Return(PyTuple(<<None, None>>))
                ELSE IF property.date.time_zone # None THEN Raise("AssertionError")
                ELSE Return(PyTuple(<<property.date.start, property.date.end>>))
          [] type_ = "people" ->
                Return(PyList([i \in DOMAIN property.people |-> property.people[i].id]))
          [] type_ = "files" ->
                Return(PyList([i \in DOMAIN property.files |-> FileUrl(property.files[i])]))
          [] type_ = "checkbox" -> Return(property.checkbox)
          [] type_ = "url" -> Return(property.url)
          [] type_ = "email" -> Return(property.email)
          [] type_ = "phone_number" -> Return(property.phone_number)
          [] type_ = "formula" -> GetValueFormula(property.formula)
          [] type_ = "relation" ->
                Return(PyList([i \in DOMAIN property.relation |-> property.relation[i].id]))
          [] type_ = "rollup" -> GetValueRollup(property.rollup)
          [] type_ = "created_time" -> Return(property.created_time)
          [] type_ = "created_by" -> Return(property.created_by.id)
          [] type_ = "last_edited_time" -> Return(property.last_edited_time)
          [] type_ = "last_edited_by" -> Return(property.last_edited_by.id)
          [] OTHER -> Raise("NotImplementedError")

(***************************************************************************)
(* convert: one Notion property and the values of all its rows to a        *)
(* PostgreSQL column type and the column's values.  The result is          *)
(* [exc, field_type, column]; field_type "None" is Python's None, the      *)
(* marker of a skipped property.                                           *)
(***************************************************************************)
Converted(field_type, column) ==
    [exc |-> "None", field_type |-> field_type, column |-> column]
ConvertRaises(e) == [exc |-> e, field_type |-> "None", column |-> <<>>]

\* isinstance(value, int); bool is a subclass of int
IsInstanceInt(value) == value.k \in {"int", "bool"}

\* Fault variant of ConvertNumber: the test "if value is not None" is missing.
ConvertNumberNoneCounts(values) ==
    IF \A i \in DOMAIN values : IsInstanceInt(values[i])
    THEN Converted("integer", values)
    ELSE Converted("double precision", values)

\* convert, lines 336-340
ConvertNumber(values) ==
    IF \A i \in DOMAIN values : values[i] # None => IsInstanceInt(values[i])
    THEN Converted("integer", values)
    ELSE Converted("double precision", values)

\* convert, lines 348-365; value[0] and value[1] are the start and the end
ConvertDate(values) ==
    IF \E i \in DOMAIN values : values[i].v[2] # None
    THEN IF /\ \A i \in DOMAIN values :
                   values[i].v[1] # None => DATE_RE_fullmatch(values[i].v[1].v)
            /\ \A i \in DOMAIN values :
                   values[i].v[2] # None => DATE_RE_fullmatch(values[i].v[2].v)
         THEN Converted("daterange", values)
         ELSE Converted("tstzrange", values)
    ELSE LET starts == [i \in DOMAIN values |-> values[i].v[1]]
         IN  IF \A i \in DOMAIN starts :
                    starts[i] # None => DATE_RE_fullmatch(starts[i].v)
             THEN Converted("date", starts)
             ELSE Converted("timestamp with time zone", starts)

\* value[0] if value else None
FirstOrNone(value) == IF value.v # <<>> THEN value.v[1] ELSE None

\* Fault variant of ConvertList: in an array column, the rows of at most one
\* element are collapsed all the same.
ConvertListPerRow(scalar_type, array_type, values) ==
    IF \A i \in DOMAIN values : Len(values[i].v) <= 1
    THEN Converted(scalar_type, [i \in DOMAIN values |-> FirstOrNone(values[i])])
    ELSE Converted(array_type,
                   [i \in DOMAIN values |->
                       IF Len(values[i].v) <= 1 THEN FirstOrNone(values[i])
                       ELSE values[i]])

\* convert, lines 367-377 and 407-411: people, files, relation
ConvertList(scalar_type, array_type, values) ==
    IF \A i \in DOMAIN values : Len(values[i].v) <= 1
    THEN Converted(scalar_type, [i \in DOMAIN values |-> FirstOrNone(values[i])])
    ELSE Converted(array_type, values)

\* set(value[0] for value in values)
Subtypes(values) == {values[i].v[1].v : i \in DOMAIN values}
\* list(value[1] for value in values)
Payloads(values) == [i \in DOMAIN values |-> values[i].v[2]]

\* Fault variant of ConvertFormula: the subtype is taken from the first row.
ConvertFormulaFirstRow(values) ==
    IF values = <<>> THEN ConvertRaises("ValueError")
    ELSE LET subtype == values[1].v[1].v
             payloads == Payloads(values)
         IN  CASE subtype = "string" -> Converted("text", payloads)
               [] subtype = "number" -> ConvertNumber(payloads)
               [] subtype = "date" -> Converted("timestamp with time zone", payloads)
               [] subtype = "boolean" -> Converted("boolean", payloads)
               [] OTHER -> ConvertRaises("NotImplementedError")

\* convert, lines 393-405; (subtype,) = set(...) raises ValueError unless the
\* set has exactly one element
ConvertFormula(values) ==
    IF Cardinality(Subtypes(values)) # 1 THEN ConvertRaises("ValueError")
    ELSE LET subtype == CHOOSE s \in Subtypes(values) : TRUE
             payloads == Payloads(values)
         IN  CASE subtype = "string" -> Converted("text", payloads)
               [] subtype = "number" -> ConvertNumber(payloads)
               [] subtype = "date" -> ConvertDate(payloads)
               [] subtype = "boolean" -> Converted("boolean", payloads)
               [] OTHER -> ConvertRaises("NotImplementedError")

\* Fault variant of ConvertRollup: a rollup without rows is skipped like an
\* array rollup instead of failing to unpack the empty set of subtypes.
ConvertRollupEmptySkipped(values) ==
    IF values = <<>> THEN Converted("None", <<>>)
    ELSE IF Cardinality(Subtypes(values)) # 1 THEN ConvertRaises("ValueError")
    ELSE LET subtype == CHOOSE s \in Subtypes(values) : TRUE
             payloads == Payloads(values)
         IN  CASE subtype = "array" -> Converted("None", payloads)
               [] subtype = "number" -> ConvertNumber(payloads)
               [] subtype = "date" -> ConvertDate(payloads)
               [] OTHER -> ConvertRaises("NotImplementedError")

\* convert, lines 413-424
ConvertRollup(values) ==
    IF Cardinality(Subtypes(values)) # 1 THEN ConvertRaises("ValueError")
    ELSE LET subtype == CHOOSE s \in Subtypes(values) : TRUE
             payloads == Payloads(values)
         IN  CASE subtype = "array" -> Converted("None", payloads)
               [] subtype = "number" -> ConvertNumber(payloads)
               [] subtype = "date" -> ConvertDate(payloads)
               [] OTHER -> ConvertRaises("NotImplementedError")

Convert(property, values) ==
    LET type_ == property.type
    IN  CASE type_ = "title" -> Converted("text", values)
          [] type_ = "rich_text" -> Converted("text", values)
          [] type_ = "number" -> ConvertNumber(values)
          [] type_ = "select" -> Converted("text", values)
          [] type_ = "multi_select" -> Converted("text[]", values)
          [] type_ = "date" -> ConvertDate(values)
          [] type_ = "people" -> ConvertList("uuid", "uuid[]", values)
          [] type_ = "files" -> ConvertList("text", "text[]", values)
          [] type_ = "checkbox" -> Converted("boolean", values)
          [] type_ = "url" -> Converted("text", values)
          [] type_ = "email" -> Converted("text", values)
          [] type_ = "phone_number" -> Converted("text", values)
          [] type_ = "formula" -> ConvertFormula(values)
          [] type_ = "relation" -> ConvertList("uuid", "uuid[]", values)
          [] type_ = "rollup" -> ConvertRollup(values)
          [] type_ = "created_time" -> Converted("timestamp with time zone", values)
          [] type_ = "created_by" -> Converted("uuid", values)
          [] type_ = "last_edited_time" -> Converted("timestamp with time zone", values)
          [] type_ = "last_edited_by" -> Converted("uuid", values)
          [] OTHER -> ConvertRaises("NotImplementedError")

(***************************************************************************)
(* sanitize_name, over the alphabet of the labels of this model: ASCII     *)
(* and the precomposed letters E-acute (201) and e-acute (233).            *)
(***************************************************************************)
\* unicodedata.normalize("NFKD", c)
NFKD(c) == CASE c = 201 -> <<69, 769>>
             [] c = 233 -> <<101, 769>>
             [] OTHER -> <<c>>

\* .encode("ascii", "ignore").decode()
AsciiIgnore(s) == SelectSeq(s, LAMBDA c : c < 128)

\* str.lower on ASCII
Lower(s) == [i \in DOMAIN s |-> IF s[i] \in 65..90 THEN s[i] + 32 ELSE s[i]]

\* str.strip: ASCII whitespace
IsSpace(c) == c \in (9..13) \cup (28..32)
RECURSIVE LStrip(_)
LStrip(s) == IF s # <<>> /\ IsSpace(Head(s)) THEN LStrip(Tail(s)) ELSE s
RECURSIVE RStrip(_)
RStrip(s) == IF s # <<>> /\ IsSpace(s[Len(s)])
             THEN RStrip(SubSeq(s, 1, Len(s) - 1)) ELSE s
Strip(s) == RStrip(LStrip(s))

\* INVALID_IN_NAME_RE = [^a-z0-9_]
ValidInName(c) == c \in (97..122) \cup (48..57) \cup {95}

sanitize_name(name) ==
    LET n1 == Join([i \in DOMAIN name |-> NFKD(name[i])])
        n2 == AsciiIgnore(n1)
        n3 == Strip(Lower(n2))
        n4 == [i \in DOMAIN n3 |-> IF n3[i] = 32 THEN 95 ELSE n3[i]]
    IN  SelectSeq(n4, ValidInName)

(***************************************************************************)
(* Bounds of the model.                                                    *)
(***************************************************************************)
MaxPages == 2          \* successful page responses of one run
MaxPageRecords == 2    \* records in one page response
MaxRows == 3           \* rows of the one-property record sets of SpecConvert

(***************************************************************************)
(* Inputs: the caller's arguments and the environment.                     *)
(***************************************************************************)
DBID_OK ==                                     \* "0123456789abcdef0123456789abcdef"
    <<48, 49, 50, 51, 52, 53, 54, 55, 56, 57, 97, 98, 99, 100, 101, 102,
      48, 49, 50, 51, 52, 53, 54, 55, 56, 57, 97, 98, 99, 100, 101, 102>>
DBID_UPPER ==                                  \* "0123456789ABCDEF0123456789abcdef"
    <<48, 49, 50, 51, 52, 53, 54, 55, 56, 57, 65, 66, 67, 68, 69, 70,
      48, 49, 50, 51, 52, 53, 54, 55, 56, 57, 97, 98, 99, 100, 101, 102>>
TN_t == <<116>>                                \* "t"
TN_ab == <<97, 98>>                            \* "ab"
TN_18 ==                                       \* "notion_table_name1", 18 characters
    <<110, 111, 116, 105, 111, 110, 95, 116, 97, 98, 108, 101, 95, 110, 97,
      109, 101, 49>>
TIMESTAMP ==                                   \* "_261031_082500"
    <<95, 50, 54, 49, 48, 51, 49, 95, 48, 56, 50, 53, 48, 48>>

Environs == SUBSET {"NOTION_TOKEN", "POSTGRESQL_DSN"}
DatabaseIds == {DBID_OK, DBID_UPPER}
TableNames == {TN_t, TN_ab, TN_18}

\* DATABASE_ID_RE.fullmatch, DATABASE_ID_RE = [0-9a-f]{32}
DATABASE_ID_RE_fullmatch(s) ==
    /\ Len(s) = 32
    /\ \A i \in DOMAIN s : s[i] \in (48..57) \cup (97..102)

\* TABLE_NAME_RE.fullmatch, TABLE_NAME_RE = [a-z_][a-z0-9_]+
TABLE_NAME_RE_fullmatch(s) ==
    /\ Len(s) >= 2
    /\ s[1] \in (97..122) \cup {95}
    /\ \A i \in 2..Len(s) : s[i] \in (97..122) \cup (48..57) \cup {95}

TABLE_NAME_MAX_LENGTH(is_versioned) == IF is_versioned THEN 17 ELSE 31

(***************************************************************************)
(* Inputs: what the upstream may answer.                                   *)
(***************************************************************************)
T_x == <<120>>                                 \* "x"
U1 == <<117, 49>>                              \* "u1"
U2 == <<117, 50>>                              \* "u2"
\* The opaque cursor the upstream hands out with its n-th page: "c1", "c2", ...
Cursor(n) == PyStr(<<99, 48 + n>>)
N_b == <<98>>                                  \* "b"
N_B == <<66>>                                  \* "B"
N_Rx == <<82, 32, 120>>                        \* "R x"
N_A == <<65>>                                  \* "A"
N_Ete2 == <<201, 116, 233, 32, 50>>            \* "Ete 2" with both e's acute
N_S == <<83>>                                  \* "S"
N_F == <<70>>                                  \* "F"

\* One entry of database["properties"]: the key and the property object.
Item(key, name, type) == [key |-> key, value |-> [name |-> name, type |-> type]]

DB_plain == <<Item(N_Ete2, N_Ete2, "title"), Item(N_b, N_b, "number")>>
DB_rollup == <<Item(N_b, N_b, "number"), Item(N_Rx, N_Rx, "rollup"),
               Item(N_A, N_A, "title")>>
DB_status == <<Item(N_b, N_b, "number"), Item(N_S, N_S, "status")>>
DB_misnamed == <<Item(N_b, N_B, "number")>>
DB_formula == <<Item(N_A, N_A, "title"), Item(N_F, N_F, "formula")>>

P_number(n) == [type |-> "number", number |-> n]
P_title(runs) == [type |-> "title", title |-> runs]
P_status == [type |-> "status", status |-> None]
P_rollup_array == [type |-> "rollup", rollup |-> [type |-> "array", array |-> <<>>]]
P_rollup_number(n) == [type |-> "rollup", rollup |-> [type |-> "number", number |-> n]]
P_formula_boolean(b) ==
    [type |-> "formula", formula |-> [type |-> "boolean", boolean |-> PyBool(b)]]
Run(t) == <<[plain_text |-> PyStr(t)]>>

\* A record (a Notion page): its id and its properties, as the pairs of a dict.
Page(id, props) == [id |-> PyStr(id), properties |-> props]
Prop(key, p) == [key |-> key, value |-> p]

RecordsOf(db) ==
    CASE db = DB_plain ->
            {Page(U1, {Prop(N_b, P_number(PyInt(1))), Prop(N_Ete2, P_title(Run(T_x)))}),
             Page(U2, {Prop(N_b, P_number(PyFloat(25))), Prop(N_Ete2, P_title(<<>>))})}
      [] db = DB_rollup ->
            {Page(U1, {Prop(N_b, P_number(PyInt(1))), Prop(N_Rx, P_rollup_array),
                       Prop(N_A, P_title(Run(T_x)))}),
             Page(U2, {Prop(N_b, P_number(None)), Prop(N_Rx, P_rollup_number(PyInt(3))),
                       Prop(N_A, P_title(<<>>))})}
      [] db = DB_status ->
            {Page(U1, {Prop(N_b, P_number(PyInt(1))), Prop(N_S, P_status)})}
      [] db = DB_misnamed ->
            {Page(U1, {Prop(N_b, P_number(PyInt(1)))})}
      [] db = DB_formula ->
            {Page(U1, {Prop(N_A, P_title(Run(T_x))),
                       Prop(N_F, P_formula_boolean(TRUE))})}

RunDatabases == {DB_plain, DB_rollup, DB_status, DB_misnamed, DB_formula}

\* page["properties"][name]
Lookup(props, key) == (CHOOSE e \in props : e.key = key).value

\* Sequences over S of length at most n.
SeqsUpTo(S, n) == UNION {[1..k -> S] : k \in 0..n}

(***************************************************************************)
(* State.                                                                  *)
(***************************************************************************)
VARIABLES
    environ,        \* os.environ: the names that are set
    database_id,    \* argument
    table_name,     \* argument
    versioned,      \* argument
    pc,             \* position in sync_database / iter_database
    error,          \* the exception that ended the run, "None" if none
    database,       \* database["properties"], in the order the upstream sent them
    has_more,       \* iter_database
    query,          \* iter_database: the request body; start_cursor
    delay,          \* iter_database
    retry,          \* iter_database
    data,           \* iter_database: the last decoded response
    pages,          \* list(iter_database(...)): the records yielded so far
    elapsed,        \* the time spent in time.sleep since t0 (line 125)
    request,        \* the body of the last page request sent
    failed,         \* failed attempts of the current page request, by kind
    npages,         \* page requests answered with a list so far
    fidx,           \* position of the for loop in the sorted properties
    name,           \* sync_database, loop variable
    property,       \* sync_database, loop variable
    values,         \* sync_database
    field_type,     \* sync_database
    column,         \* sync_database
    field_names,    \* sync_database
    field_types,    \* sync_database
    columns,        \* sync_database
    log_converted,  \* logging.info('Converted property "%s" to %s'): the labels
    log_skipped,    \* logging.info('Skipping unsupported property "%s"'): the labels
    rows,           \* sync_database
    calls           \* the calls of create_table, in order

config == <<environ, database_id, table_name, versioned>>
fetch == <<has_more, query, delay, retry, data, pages, elapsed, request, failed, npages>>
assemble == <<fidx, name, property, values, field_type, column, field_names,
              field_types, columns, log_converted, log_skipped, rows>>
vars == <<config, pc, error, database, fetch, assemble, calls>>

NoCursor == [k |-> "absent"]
NoData == [object |-> "unbound"]
NoFailures == [RequestError |-> 0, JSONDecodeError |-> 0, error |-> 0]
NoProperty == [name |-> <<>>, type |-> "unbound"]

NoQuery == [start_cursor |-> [k |-> "unbound"]]

\* The locals of iter_database while the generator does not exist.
Unbound(h, q, d, r, dt, e, f) ==
    /\ h = FALSE /\ q = NoQuery /\ d = 0 /\ r = 0 /\ dt = NoData /\ e = 0
    /\ f = NoFailures

FetchUnbound ==
    /\ Unbound(has_more, query, delay, retry, data, elapsed, failed)
    /\ pages = <<>> /\ request = NoData /\ npages = 0

AssembleUnbound ==
    /\ fidx = 0 /\ name = <<>> /\ property = NoProperty /\ values = <<>>
    /\ field_type = "None" /\ column = <<>> /\ field_names = <<>>
    /\ field_types = <<>> /\ columns = <<>> /\ rows = <<>>
    /\ log_converted = <<>> /\ log_skipped = <<>>

Init ==
    /\ environ \in Environs
    /\ database_id \in DatabaseIds
    /\ table_name \in TableNames
    /\ versioned \in BOOLEAN
    /\ pc = "validate"
    /\ error = "None"
    /\ database = <<>>
    /\ FetchUnbound
    /\ AssembleUnbound
    /\ calls = <<>>

Abort(e) == pc' = "aborted" /\ error' = e

(***************************************************************************)
(* sync_database, lines 485-517: environment and arguments.                *)
(***************************************************************************)
ConfigError ==
    IF "NOTION_TOKEN" \notin environ THEN "RuntimeError"
    ELSE IF "POSTGRESQL_DSN" \notin environ THEN "RuntimeError"
    ELSE IF ~DATABASE_ID_RE_fullmatch(database_id) THEN "ValueError"
    ELSE IF ~TABLE_NAME_RE_fullmatch(table_name) THEN "ValueError"
    ELSE IF Len(table_name) > TABLE_NAME_MAX_LENGTH(versioned) THEN "ValueError"
    ELSE "None"

Validate ==
    /\ pc = "validate"
    /\ IF ConfigError # "None" THEN Abort(ConfigError)
       ELSE pc' = "get_database" /\ error' = error
    /\ UNCHANGED <<config, database, fetch, assemble, calls>>

(***************************************************************************)
(* get_database, lines 89-114, called at line 520.  There is no retry: a   *)
(* transport error, an undecodable body or an error object ends the run.   *)
(***************************************************************************)
GetDatabaseOk ==
    /\ pc = "get_database"
    /\ \E db \in RunDatabases : database' = db
    /\ pc' = "iter_database"
    /\ UNCHANGED <<config, error, fetch, assemble, calls>>

GetDatabaseFails ==
    /\ pc = "get_database"
    /\ \E e \in {"RequestError", "JSONDecodeError", "RuntimeError"} : Abort(e)
    /\ UNCHANGED <<config, database, fetch, assemble, calls>>

(***************************************************************************)
(* iter_database, lines 117-186, consumed by list() at line 521.           *)
(***************************************************************************)
IterDatabaseStart ==
    /\ pc = "iter_database"
    /\ has_more' = TRUE
    /\ query' = [start_cursor |-> NoCursor]
    /\ pc' = "while"
    /\ UNCHANGED <<config, error, database, delay, retry, data, pages, elapsed,
                   request, failed, npages, assemble, calls>>

\* The delay of the first attempt of a page request, line 126.
FirstDelay == DELAY

\* while has_more: t0 = ...; delay = DELAY; for retry in range(RETRIES):
WhileEnter ==
    /\ pc = "while"
    /\ has_more
    /\ elapsed' = 0
    /\ delay' = FirstDelay
    /\ retry' = 0
    /\ failed' = NoFailures
    /\ pc' = "attempt"
    /\ UNCHANGED <<config, error, database, has_more, query, data, pages,
                   request, npages, assemble, calls>>

\* Fault variant of LastRetry: the comparison is off by one, so the last
\* attempt of the for loop is not recognised.
LastRetryLate(r) == r = RETRIES

\* retry == RETRIES - 1, lines 145, 156 and 168
LastRetry(r) == r = RETRIES - 1

\* Fault variant of Backoff: the delay grows by addition.
BackoffAdditive(d) == d + BACKOFF

\* delay *= BACKOFF, lines 148, 159 and 171
Backoff(d) == d * BACKOFF

\* time.sleep(delay); httpx.post(..., json=query, ...), lines 129-138
SleepAndPost ==
    /\ elapsed' = elapsed + delay
    /\ request' = query

\* The end of a failed attempt: raise on the last one, else back off and continue.
RaiseOrRetry(kind, exc) ==
    /\ failed' = [failed EXCEPT ![kind] = @ + 1]
    /\ IF LastRetry(retry)
       THEN Abort(exc) /\ UNCHANGED <<delay, retry>>
       ELSE delay' = Backoff(delay) /\ retry' = retry + 1 /\ UNCHANGED <<pc, error>>

\* except httpx.RequestError, lines 140-149
AttemptRequestError ==
    /\ pc = "attempt"
    /\ SleepAndPost
    /\ RaiseOrRetry("RequestError", "RequestError")
    /\ UNCHANGED <<config, database, has_more, query, data, pages, npages,
                   assemble, calls>>

\* except json.JSONDecodeError, lines 151-160
AttemptJSONDecodeError ==
    /\ pc = "attempt"
    /\ SleepAndPost
    /\ RaiseOrRetry("JSONDecodeError", "JSONDecodeError")
    /\ UNCHANGED <<config, database, has_more, query, data, pages, npages,
                   assemble, calls>>

\* data["object"] == "error", lines 162-172
AttemptErrorObject ==
    /\ pc = "attempt"
    /\ SleepAndPost
    /\ data' = [object |-> "error", status |-> 502]
    /\ RaiseOrRetry("error", "RuntimeError")
    /\ UNCHANGED <<config, database, has_more, query, pages, npages,
                   assemble, calls>>

\* The answers the upstream may give to a page request: at most MaxPageRecords
\* records of the database, and the next cursor exactly when there are more pages.
ListResponses ==
    {[object |-> "list", results |-> rs, has_more |-> m,
      next_cursor |-> IF m THEN Cursor(npages + 1) ELSE None] :
        rs \in SeqsUpTo(RecordsOf(database), MaxPageRecords), m \in BOOLEAN}

\* Fault variant of NextQuery: the cursor of the response is dropped.
NextQueryStale(resp) == query

\* query["start_cursor"] = data["next_cursor"], line 184
NextQuery(resp) == [start_cursor |-> resp.next_cursor]

\* break at line 174, then lines 175-186
AttemptList ==
    /\ pc = "attempt"
    /\ SleepAndPost
    /\ \E resp \in ListResponses :
          /\ resp.has_more => npages + 1 < MaxPages
          /\ data' = resp
          /\ has_more' = resp.has_more
          /\ query' = NextQuery(resp)
          /\ pages' = pages \o resp.results
    /\ npages' = npages + 1
    /\ pc' = "while"
    /\ UNCHANGED <<config, error, database, delay, retry, failed, assemble, calls>>

\* break at line 174 with an object that is neither an error nor a list:
\* assert data["object"] == "list", line 177
AttemptOtherObject ==
    /\ pc = "attempt"
    /\ SleepAndPost
    /\ data' = [object |-> "page"]
    /\ Abort("AssertionError")
    /\ UNCHANGED <<config, database, has_more, query, delay, retry, pages,
                   failed, npages, assemble, calls>>

(***************************************************************************)
(* sync_database, lines 523-552.                                           *)
(***************************************************************************)
\* Fault variant of SortItems: the order of the keys is reversed.
RECURSIVE SortItemsReversed(_)
SortItemsReversed(S) ==
    IF S = {} THEN <<>>
    ELSE LET m == CHOOSE x \in S : \A y \in S : y = x \/ StrLess(y.key, x.key)
         IN  <<m>> \o SortItemsReversed(S \ {m})

\* sorted(database["properties"].items()): the keys of a dict are distinct, so
\* the pairs are ordered by their keys.
RECURSIVE SortItems(_)
SortItems(S) ==
    IF S = {} THEN <<>>
    ELSE LET m == CHOOSE x \in S : \A y \in S : y = x \/ StrLess(x.key, y.key)
         IN  <<m>> \o SortItems(S \ {m})

SortedItems == SortItems(Range(database))

\* while has_more ends the generator, whose locals die with it, and list()
\* returns; then lines 524-526
AssembleStart ==
    /\ pc = "while"
    /\ ~has_more
    /\ Unbound(has_more', query', delay', retry', data', elapsed', failed')
    /\ field_names' = <<S_id>>
    /\ field_types' = <<"uuid">>
    /\ columns' = <<[i \in DOMAIN pages |-> pages[i].id]>>
    /\ fidx' = 1
    /\ pc' = "for"
    /\ UNCHANGED <<config, error, database, pages, request, npages, name, property,
                   values, field_type, column, log_converted, log_skipped, rows, calls>>

\* [get_value(page["properties"][name]) for page in pages]
GetValues(key) == [i \in DOMAIN pages |-> GetValue(Lookup(pages[i].properties, key))]

\* lines 529-531
FieldGetValues ==
    /\ pc = "for"
    /\ fidx <= Len(SortedItems)
    /\ LET item == SortedItems[fidx]
           outs == GetValues(item.key)
           bad == {i \in DOMAIN outs : outs[i].exc # "None"}
       IN  /\ name' = item.key
           /\ property' = item.value
           /\ IF item.key # item.value.name
              THEN Abort("AssertionError") /\ UNCHANGED values
              ELSE IF bad # {}
              THEN LET first == CHOOSE i \in bad : \A j \in bad : i <= j
                   IN  Abort(outs[first].exc) /\ UNCHANGED values
              ELSE /\ values' = [i \in DOMAIN outs |-> outs[i].value]
                   /\ pc' = "convert"
                   /\ error' = error
    /\ UNCHANGED <<config, database, fetch, fidx, field_type, column, field_names,
                   field_types, columns, log_converted, log_skipped, rows, calls>>

\* Fault variant of FieldConvert: an exception of convert is recorded and the
\* property is left out, instead of ending the run.
FieldConvertLenient ==
    /\ pc = "convert"
    /\ LET r == Convert(property, values)
       IN  IF r.exc # "None"
           THEN /\ error' = r.exc
                /\ field_type' = "None"
                /\ column' = <<>>
                /\ pc' = "append"
           ELSE /\ field_type' = r.field_type
                /\ column' = r.column
                /\ pc' = "append"
                /\ error' = error
    /\ UNCHANGED <<config, database, fetch, fidx, name, property, values, field_names,
                   field_types, columns, log_converted, log_skipped, rows, calls>>

\* line 532
FieldConvert ==
    /\ pc = "convert"
    /\ LET r == Convert(property, values)
       IN  IF r.exc # "None"
           THEN Abort(r.exc) /\ UNCHANGED <<field_type, column>>
           ELSE /\ field_type' = r.field_type
                /\ column' = r.column
                /\ pc' = "append"
                /\ error' = error
    /\ UNCHANGED <<config, database, fetch, fidx, name, property, values, field_names,
                   field_types, columns, log_converted, log_skipped, rows, calls>>

\* field_type is None, line 533
IsSkip(t) == t = "None"

\* lines 533-535
FieldSkip ==
    /\ pc = "append"
    /\ IsSkip(field_type)
    /\ log_skipped' = Append(log_skipped, name)
    /\ fidx' = fidx + 1
    /\ pc' = "for"
    /\ UNCHANGED <<config, error, database, fetch, name, property, values, field_type,
                   column, field_names, field_types, columns, log_converted, rows, calls>>

\* lines 536-539
FieldAppend ==
    /\ pc = "append"
    /\ ~IsSkip(field_type)
    /\ log_converted' = Append(log_converted, name)
    /\ field_names' = Append(field_names, sanitize_name(name))
    /\ field_types' = Append(field_types, field_type)
    /\ columns' = Append(columns, column)
    /\ fidx' = fidx + 1
    /\ pc' = "for"
    /\ UNCHANGED <<config, error, database, fetch, name, property, values, field_type,
                   column, log_skipped, rows, calls>>

\* list(zip(*columns)): as many tuples as the shortest column has entries
Min(S) == CHOOSE x \in S : \A y \in S : x <= y
Zip(cols) ==
    IF cols = <<>> THEN <<>>
    ELSE [i \in 1..Min({Len(cols[c]) : c \in DOMAIN cols}) |->
              [c \in DOMAIN cols |-> cols[c][i]]]

\* line 541, after the last property
ZipRows ==
    /\ pc = "for"
    /\ fidx > Len(SortedItems)
    /\ rows' = Zip(columns)
    /\ pc' = "create_table"
    /\ UNCHANGED <<config, error, database, fetch, fidx, name, property, values,
                   field_type, column, field_names, field_types, columns,
                   log_converted, log_skipped, calls>>

\* create_table, lines 450-480, has no except clause: whatever a statement
\* raises ends the call.  The destination is shared with other sessions, so
\* what it holds when a statement runs is not determined by the statements
\* before it.  The classes are those of the driver; the set is open in the
\* program, and "Exception" stands for an exception of any class that is not
\* named here.
\*   line 452      psycopg.connect, and any later round trip: the destination
\*                 is unreachable (OperationalError)
\*   any statement the role lacks the privilege (InsufficientPrivilege)
\*   lines 457-458 DROP TABLE IF EXISTS, when drop: the name is that of a
\*                 view (WrongObjectType), or a view depends on the table
\*                 (DependentObjectsStillExist)
\*   line 464      CREATE TABLE: the table is there, left by an earlier run
\*                 or made by another session since the DROP (DuplicateTable)
\*   lines 464-469 CREATE TABLE, COPY: a name the server does not parse, a
\*                 value the driver does not adapt (ProgrammingError)
\*   lines 473-476 CREATE OR REPLACE VIEW, when timestamp is not None: the
\*                 name is that of a table (WrongObjectType), or the view
\*                 there has other columns or column types
\*                 (InvalidTableDefinition)
CreateTableRaises(drop, timestamp) ==
    {"OperationalError", "InsufficientPrivilege", "DuplicateTable",
     "ProgrammingError", "Exception"}
    \cup (IF drop THEN {"WrongObjectType", "DependentObjectsStillExist"} ELSE {})
    \cup (IF timestamp # None THEN {"WrongObjectType", "InvalidTableDefinition"} ELSE {})

\* lines 544-552: the call of create_table, with drop=drop_existing, the
\* argument of sync_database that is read here only.  The call is made with
\* the assembled output; it returns, or it raises what the destination raises
\* and sync_database ends with that exception.  The round trips of the call
\* are one step, and the content of the destination is not part of this model.
CreateTable ==
    /\ pc = "create_table"
    /\ \E drop_existing \in BOOLEAN :
          LET timestamp == IF versioned THEN PyStr(TIMESTAMP) ELSE None
          IN  /\ calls' = Append(calls, [table_name |-> table_name,
                                         field_names |-> field_names,
                                         field_types |-> field_types,
                                         rows |-> rows,
                                         drop |-> drop_existing,
                                         timestamp |-> timestamp])
              /\ \/ pc' = "done" /\ error' = error
                 \/ \E e \in CreateTableRaises(drop_existing, timestamp) : Abort(e)
    /\ UNCHANGED <<config, database, fetch, assemble>>

FetchNext ==
    \/ IterDatabaseStart
    \/ WhileEnter
    \/ AttemptRequestError
    \/ AttemptJSONDecodeError
    \/ AttemptErrorObject
    \/ AttemptList
    \/ AttemptOtherObject

AssembleNext ==
    \/ AssembleStart
    \/ FieldGetValues
    \/ FieldConvert
    \/ FieldSkip
    \/ FieldAppend
    \/ ZipRows
    \/ CreateTable

Next ==
    \/ Validate
    \/ GetDatabaseOk
    \/ GetDatabaseFails
    \/ FetchNext
    \/ AssembleNext

Spec == Init /\ [][Next]_vars

(***************************************************************************)
(* SpecConvert: the loop of sync_database over a database of one property, *)
(* started where iter_database has just returned the whole record set in   *)
(* one page on its first attempt.  The raw values of the property's rows   *)
(* are drawn from the sets below, one set per Notion property type.        *)
(***************************************************************************)
D_0101 == <<50, 48, 50, 52, 45, 48, 49, 45, 48, 49>>      \* "2024-01-01"
D_0102 == <<50, 48, 50, 52, 45, 48, 49, 45, 48, 50>>      \* "2024-01-02"
DT_0101_10h ==                                 \* "2024-01-01T10:00:00.000+00:00"
    <<50, 48, 50, 52, 45, 48, 49, 45, 48, 49, 84, 49, 48, 58, 48, 48, 58,
      48, 48, 46, 48, 48, 48, 43, 48, 48, 58, 48, 48>>
DT_0103_00h ==                                 \* "2024-01-03T00:00:00.000+00:00"
    <<50, 48, 50, 52, 45, 48, 49, 45, 48, 51, 84, 48, 48, 58, 48, 48, 58,
      48, 48, 46, 48, 48, 48, 43, 48, 48, 58, 48, 48>>
TZ_Paris == <<69, 117, 114, 111, 112, 101, 47, 80, 97, 114, 105, 115>>  \* "Europe/Paris"
URL_secure ==                  \* "https://secure.notion-static.com/a.png?X-Sig=1"
    <<104, 116, 116, 112, 115, 58, 47, 47, 115, 101, 99, 117, 114, 101, 46,
      110, 111, 116, 105, 111, 110, 45, 115, 116, 97, 116, 105, 99, 46, 99,
      111, 109, 47, 97, 46, 112, 110, 103, 63, 88, 45, 83, 105, 103, 61, 49>>
URL_external ==                                \* "https://e.org/b?c=1"
    <<104, 116, 116, 112, 115, 58, 47, 47, 101, 46, 111, 114, 103, 47, 98,
      63, 99, 61, 49>>

DateObject(start, end, tz) == [start |-> start, end |-> end, time_zone |-> tz]

\* The date objects a date property or a rollup may carry.
DateObjects ==
    {None,
     DateObject(PyStr(D_0101), None, None),
     DateObject(PyStr(DT_0101_10h), None, None),
     DateObject(PyStr(D_0101), PyStr(D_0102), None),
     DateObject(PyStr(D_0101), PyStr(DT_0101_10h), None),
     DateObject(PyStr(DT_0103_00h), PyStr(DT_0103_00h), None),
     DateObject(PyStr(D_0101), None, PyStr(TZ_Paris))}

Numbers == {None, PyInt(1), PyFloat(25), PyFloat(20)}   \* null, 1, 2.5, 2.0

IdLists == {<<>>, <<[id |-> PyStr(U1)]>>, <<[id |-> PyStr(U2)]>>,
            <<[id |-> PyStr(U1)], [id |-> PyStr(U2)]>>}

File(url) == [file |-> [url |-> PyStr(url)]]

PropertyTypes ==
    {"title", "rich_text", "number", "select", "multi_select", "date", "people",
     "files", "checkbox", "url", "email", "phone_number", "formula", "relation",
     "rollup", "created_time", "created_by", "last_edited_time", "last_edited_by",
     "status"}

RawValues(type) ==
    CASE type = "title" -> {P_title(<<>>), P_title(Run(T_x))}
      [] type = "rich_text" ->
            {[type |-> "rich_text", rich_text |-> r] : r \in {<<>>, Run(T_x) \o Run(T_x)}}
      [] type = "number" -> {P_number(n) : n \in Numbers}
      [] type = "select" ->
            {[type |-> "select", select |-> x] : x \in {None, [name |-> PyStr(T_x)]}}
      [] type = "multi_select" ->
            {[type |-> "multi_select", multi_select |-> x] :
                x \in {<<>>, <<[name |-> PyStr(T_x)]>>}}
      [] type = "date" -> {[type |-> "date", date |-> d] : d \in DateObjects}
      [] type = "people" -> {[type |-> "people", people |-> l] : l \in IdLists}
      [] type = "relation" -> {[type |-> "relation", relation |-> l] : l \in IdLists}
      [] type = "files" ->
            {[type |-> "files", files |-> l] :
                l \in {<<>>, <<File(URL_secure)>>, <<File(URL_external)>>,
                       <<File(URL_secure), File(URL_external)>>}}
      [] type = "checkbox" -> {[type |-> "checkbox", checkbox |-> PyBool(b)] : b \in BOOLEAN}
      [] type = "url" -> {[type |-> "url", url |-> x] : x \in {None, PyStr(URL_external)}}
      [] type = "email" -> {[type |-> "email", email |-> x] : x \in {None, PyStr(T_x)}}
      [] type = "phone_number" ->
            {[type |-> "phone_number", phone_number |-> x] : x \in {None, PyStr(T_x)}}
      [] type = "formula" ->
            {[type |-> "formula", formula |-> f] : f \in
                {[type |-> "string", string |-> PyStr(T_x)],
                 [type |-> "boolean", boolean |-> PyBool(TRUE)],
                 [type |-> "unsupported"]}
                \cup {[type |-> "number", number |-> n] : n \in Numbers}
                \cup {[type |-> "date", date |-> d] : d \in DateObjects}}
      [] type = "rollup" ->
            {P_rollup_array, [type |-> "rollup", rollup |-> [type |-> "unsupported"]]}
            \cup {P_rollup_number(n) : n \in Numbers}
            \cup {[type |-> "rollup", rollup |-> [type |-> "date", date |-> d]] :
                     d \in DateObjects}
      [] type = "created_time" ->
            {[type |-> "created_time", created_time |-> PyStr(DT_0101_10h)]}
      [] type = "created_by" ->
            {[type |-> "created_by", created_by |-> [id |-> PyStr(U1)]]}
      [] type = "last_edited_time" ->
            {[type |-> "last_edited_time", last_edited_time |-> PyStr(DT_0101_10h)]}
      [] type = "last_edited_by" ->
            {[type |-> "last_edited_by", last_edited_by |-> [id |-> PyStr(U1)]]}
      [] type = "status" -> {P_status}

\* The id of the i-th record: "u1", "u2", ...
Uid(i) == <<117, 48 + i>>

\* The record sets of at most MaxRows rows over one property labelled "b".
OnePropertyPages(type) ==
    {[i \in DOMAIN raws |-> Page(Uid(i), {Prop(N_b, raws[i])})] :
        raws \in SeqsUpTo(RawValues(type), MaxRows)}

InitConvert ==
    /\ environ = {"NOTION_TOKEN", "POSTGRESQL_DSN"}
    /\ database_id = DBID_OK
    /\ table_name = TN_ab
    /\ versioned = FALSE
    /\ pc = "while"
    /\ error = "None"
    /\ \E type \in PropertyTypes :
          /\ database = <<Item(N_b, N_b, type)>>
          /\ pages \in OnePropertyPages(type)
    /\ has_more = FALSE
    /\ query = [start_cursor |-> None]
    /\ delay = DELAY
    /\ retry = 0
    /\ data = [object |-> "list", results |-> pages, has_more |-> FALSE,
               next_cursor |-> None]
    /\ elapsed = DELAY
    /\ request = [start_cursor |-> NoCursor]
    /\ failed = NoFailures
    /\ npages = 1
    /\ AssembleUnbound
    /\ calls = <<>>

SpecConvert == InitConvert /\ [][AssembleNext]_vars

(***************************************************************************)
(* Properties of the run (Spec).                                           *)
(***************************************************************************)
RECURSIVE Pow(_, _)
Pow(b, e) == IF e = 0 THEN 1 ELSE b * Pow(b, e - 1)

\* The sleeps before the attempts 1 .. k-1 of a page request, as C4 states them.
RECURSIVE SleptBefore(_)
SleptBefore(k) ==
    IF k <= 1 THEN 0 ELSE SleptBefore(k - 1) + DELAY * Pow(BACKOFF, k - 2)

\* The failed attempts of the current page request, of all kinds.
Failures == failed.RequestError + failed.JSONDecodeError + failed.error
FailuresNext == failed'.RequestError + failed'.JSONDecodeError + failed'.error

\* A step that sleeps and sends a page request, and how it ends.
AttemptStep == pc = "attempt" /\ elapsed' # elapsed
SuccessStep == AttemptStep /\ pc' = "while"
FailureStep == AttemptStep /\ FailuresNext = Failures + 1

FetchErrors == {"RequestError", "JSONDecodeError", "RuntimeError"}

\* C1: create_table is called at most once, only in a run that has met no
\* error so far, after the fetch loop has ended on a response whose has_more
\* is false and after every property of the database has been through
\* get_value and convert.  A run that aborts anywhere before the call (on the
\* configuration, in get_database, in the fetch, in get_value, on an assert,
\* in convert) has not called create_table, and an aborted run takes no
\* further step.  The only abort with a call made is the one raised out of
\* that call itself, whatever the class of the exception.
C1_CallState ==
    /\ Len(calls) <= 1
    /\ calls # <<>> =>
          /\ pc \in {"done", "aborted"}
          /\ npages >= 1
          /\ fidx = Len(database) + 1
          /\ Len(log_converted) + Len(log_skipped) = Len(database)
    /\ pc \in {"for", "convert", "append", "create_table", "done"} =>
          /\ npages >= 1
          /\ error = "None"
    /\ pc \in {"validate", "get_database", "iter_database", "while", "attempt",
                "for", "convert", "append", "create_table"} => calls = <<>>
    /\ pc = "aborted" <=> error # "None"
C1_CallStep ==
    /\ (pc = "while" /\ pc' = "for") =>
          ~has_more /\ data.object = "list" /\ ~data.has_more
    /\ (pc # "for" /\ pc' = "for") => pc \in {"while", "append"}
    /\ calls' # calls =>
          /\ pc = "create_table" /\ fidx > Len(database) /\ error = "None"
          /\ calls = <<>> /\ Len(calls') = 1
          /\ pc' \in {"done", "aborted"}
    /\ (pc' = "aborted" /\ pc # "create_table") => calls = <<>> /\ calls' = <<>>
    /\ (pc' = "aborted" /\ pc = "create_table") => calls' # calls
    /\ pc' = "done" => pc = "create_table" /\ calls' # calls
    /\ pc \notin {"aborted", "done"}
C1_LoaderOnlyAfterCompleteRun == [](C1_CallState) /\ [][C1_CallStep]_vars

\* Witnesses of C1: create_table has been called after two pages of records;
\* and a run aborted by convert after two pages, before any call.
C1_Witness ==
    pc = "done" /\ Len(calls) = 1 /\ npages = 2 /\ Len(pages) >= 2
C1_WitnessAborted ==
    pc = "aborted" /\ error = "ValueError" /\ npages = 2 /\ calls = <<>>
\* The call was made and the destination refused it: the table of an
\* earlier run is there and is not dropped; the view of an earlier versioned
\* run has a column of another type.
C1_WitnessDestination ==
    /\ pc = "aborted" /\ error = "DuplicateTable" /\ Len(calls) = 1 /\ npages = 2
    /\ ~calls[1].drop
C1_WitnessDestinationView ==
    /\ pc = "aborted" /\ error = "InvalidTableDefinition" /\ Len(calls) = 1
    /\ versioned /\ calls[1].timestamp = PyStr(TIMESTAMP)
\* The table is made by another session after the DROP of this one; the role
\* may not create tables; an exception of a class that is not named.
C1_WitnessDestinationRace ==
    pc = "aborted" /\ error = "DuplicateTable" /\ Len(calls) = 1 /\ calls[1].drop
C1_WitnessDestinationPrivilege ==
    pc = "aborted" /\ error = "InsufficientPrivilege" /\ Len(calls) = 1
C1_WitnessDestinationOther ==
    pc = "aborted" /\ error = "Exception" /\ Len(calls) = 1

\* C2: a successful attempt appends exactly the records of its response,
\* takes has_more and the cursor from it, and sends the current query; a
\* failed attempt yields nothing and leaves the cursor alone, so that the
\* retry sends the same request; after a response without has_more no
\* request follows.
C2_FetchStep ==
    /\ AttemptStep => request' = query
    /\ SuccessStep =>
          /\ data'.object = "list"
          /\ pages' = pages \o data'.results
          /\ has_more' = data'.has_more
          /\ query'.start_cursor = data'.next_cursor
          /\ npages' = npages + 1
    /\ (AttemptStep /\ ~SuccessStep) =>
          /\ pages' = pages
          /\ query' = query
          /\ npages' = npages
    /\ (AttemptStep /\ Failures > 0) => request' = request
    /\ (AttemptStep /\ Failures = 0 /\ npages > 0) =>
          request'.start_cursor = data.next_cursor /\ request' # request
    /\ (AttemptStep /\ npages = 0) => request'.start_cursor = NoCursor
    /\ (pc = "while" /\ ~has_more) => pc' = "for" /\ pages' = pages
    /\ pages' # pages => SuccessStep
C2_RecordsAreTheSuccessfulPages == [][C2_FetchStep]_vars

\* Witness of C2: the second page failed twice with a transport error and
\* succeeded on its third attempt; both pages carried records.
C2_Witness ==
    /\ pc = "while"
    /\ npages = 2
    /\ failed = [RequestError |-> 2, JSONDecodeError |-> 0, error |-> 0]
    /\ retry = 2
    /\ Len(data.results) = 2
    /\ Len(pages) = 4
    /\ SubSeq(pages, 3, 4) = data.results
    /\ pages[3] # pages[4]

\* The exception a failed attempt of each kind raises on the last attempt.
C3_Raised ==
    IF failed'.RequestError # failed.RequestError THEN "RequestError"
    ELSE IF failed'.JSONDecodeError # failed.JSONDecodeError THEN "JSONDecodeError"
    ELSE "RuntimeError"

\* C3: a page request is attempted at most RETRIES times; a failure of any
\* kind on attempts 1 to RETRIES - 1 leads to another attempt of the same
\* request, a failure on attempt RETRIES ends the run with the exception of
\* that failure; the ended run yields no more records.
C3_AttemptState ==
    /\ Failures <= RETRIES
    /\ pc = "attempt" => Failures < RETRIES /\ retry = Failures
    /\ Failures = RETRIES => pc = "aborted" /\ error \in FetchErrors
C3_AttemptStep ==
    /\ AttemptStep => SuccessStep \/ FailureStep \/ pc' = "aborted"
    /\ (FailureStep /\ Failures < RETRIES - 1) =>
          /\ pc' = "attempt"
          /\ error' = "None"
          /\ query' = query
          /\ pages' = pages
    /\ (FailureStep /\ Failures = RETRIES - 1) =>
          /\ pc' = "aborted"
          /\ error' = C3_Raised
          /\ pages' = pages
    /\ pc # "aborted"
C3_BoundedRetries == [](C3_AttemptState) /\ [][C3_AttemptStep]_vars

\* Witness of C3: the second page request failed RETRIES times, the last time
\* with an error object, after a first page of records.
C3_Witness ==
    /\ pc = "aborted"
    /\ error = "RuntimeError"
    /\ Failures = RETRIES
    /\ failed.RequestError > 0 /\ failed.JSONDecodeError > 0
    /\ npages = 1
    /\ pages # <<>>

\* C4: every page request is preceded by a sleep of at least DELAY; the sleep
\* before the first attempt of a page request is DELAY and the sleep before
\* its k-th attempt is DELAY * BACKOFF^(k-1), k-1 being the number of failed
\* attempts of all three kinds together; a success on the third attempt has
\* slept at least DELAY + DELAY * BACKOFF.
C4_SleepState ==
    /\ pc = "attempt" => delay = DELAY * Pow(BACKOFF, Failures)
    /\ pc = "attempt" => elapsed = SleptBefore(Failures + 1)
C4_SleepStep ==
    /\ AttemptStep =>
          /\ elapsed' - elapsed = DELAY * Pow(BACKOFF, Failures)
          /\ elapsed' - elapsed >= DELAY
    /\ (AttemptStep /\ Failures = 0) => elapsed' - elapsed = DELAY
    /\ (SuccessStep /\ Failures = 2) => elapsed' >= DELAY + DELAY * BACKOFF
    /\ pc = "attempt" => elapsed' # elapsed
    /\ elapsed' # elapsed => pc = "attempt" \/ elapsed' = 0
C4_ThrottleAndBackoff == [](C4_SleepState) /\ [][C4_SleepStep]_vars

\* Witness of C4: the third attempt of the second page request succeeded after
\* one failure of each of two kinds.
C4_Witness ==
    /\ pc = "while"
    /\ npages = 2
    /\ failed = [RequestError |-> 0, JSONDecodeError |-> 1, error |-> 1]
    /\ elapsed = DELAY + DELAY * BACKOFF + DELAY * BACKOFF * BACKOFF

\* C10: the comment at lines 80-81: the total delay of a page request whose
\* attempts are all used up is 2047 seconds.
C10_MaxTotalDelay == Failures = RETRIES => elapsed = 2047

\* What the code does: the RETRIES sleeps of a page request add up to
\* DELAY * (BACKOFF^RETRIES - 1) / (BACKOFF - 1) = 1023 seconds, and no page
\* request sleeps longer.
C10_ActualTotalDelay ==
    /\ elapsed <= 1023
    /\ Failures = RETRIES => elapsed = 1023

(***************************************************************************)
(* Properties of convert (SpecConvert), read in the state after line 532:  *)
(* property and values are the arguments, field_type and column the result.*)
(***************************************************************************)
\* All rows of a formula or rollup property carry the subtype t.
SubtypeIs(t) ==
    /\ property.type \in {"formula", "rollup"}
    /\ values # <<>>
    /\ \A i \in DOMAIN values : values[i].v[1].v = t

\* The values convert decides on: the values of a plain property, the payloads
\* of a formula or rollup.
Payload(i) == IF property.type \in {"formula", "rollup"} THEN values[i].v[2] ELSE values[i]

AfterConvert == pc = "append"

\* C5: a numeric column is integer if and only if every value that is not None
\* is an int (an exact integer: 2.0, a float, is not one), double precision
\* otherwise; the decision is for the column, and None does not count.
C5_NumericKind == property.type = "number" \/ SubtypeIs("number")
C5_AllExactIntegers ==
    \A i \in DOMAIN values : Payload(i) # None => Payload(i).k = "int"
C5_IntegerIffAllIntegers ==
    (AfterConvert /\ C5_NumericKind) =>
        /\ field_type \in {"integer", "double precision"}
        /\ field_type = "integer" <=> C5_AllExactIntegers
        /\ column = [i \in DOMAIN values |-> Payload(i)]

\* Witness of C5: a number formula with the rows 1, None and 2.5, in some
\* order, has become double precision.
C5_Witness ==
    /\ AfterConvert
    /\ property.type = "formula"
    /\ SubtypeIs("number")
    /\ {Payload(i) : i \in DOMAIN values} = {PyInt(1), None, PyFloat(25)}
    /\ field_type = "double precision"

\* A second case of C5: integers and None alone make an integer column.
C5_WitnessInteger ==
    /\ AfterConvert
    /\ property.type = "number"
    /\ {Payload(i) : i \in DOMAIN values} = {PyInt(1), None}
    /\ field_type = "integer"

\* YYYY-MM-DD and nothing else.
IsCalendarDate(s) ==
    /\ Len(s) = 10
    /\ \A i \in 1..10 : IF i \in {5, 8} THEN s[i] = 45 ELSE s[i] \in 48..57

\* C6: a date column is a range (daterange, tstzrange) if and only if some row
\* has an end, a scalar (date, timestamp with time zone) otherwise; in both
\* cases it is date-only if and only if every start and end that is not None
\* is YYYY-MM-DD in full; the scalar column holds the starts, row by row.
C6_DateKind == property.type = "date" \/ SubtypeIs("date")
C6_SomeEnd == \E i \in DOMAIN values : Payload(i).v[2] # None
C6_AllCalendarDates ==
    \A i \in DOMAIN values : \A j \in {1, 2} :
        Payload(i).v[j] # None => IsCalendarDate(Payload(i).v[j].v)
C6_RangeIffSomeEnd ==
    (AfterConvert /\ C6_DateKind) =>
        /\ field_type \in {"daterange", "tstzrange", "date", "timestamp with time zone"}
        /\ field_type \in {"daterange", "tstzrange"} <=> C6_SomeEnd
        /\ field_type \in {"date", "timestamp with time zone"} <=> ~C6_SomeEnd
        /\ field_type \in {"date", "daterange"} <=> C6_AllCalendarDates
        /\ ~C6_SomeEnd => column = [i \in DOMAIN values |-> Payload(i).v[1]]
        /\ C6_SomeEnd => column = [i \in DOMAIN values |-> Payload(i)]
        /\ Len(column) = Len(pages)

\* Witness of C6: a date property of three rows, one with a date-only end and
\* two without an end, one of these with a timestamp start: a tstzrange.
C6_Witness ==
    /\ AfterConvert
    /\ property.type = "date"
    /\ Len(values) = 3
    /\ \E i, j, l \in DOMAIN values :
          /\ values[i] = PyTuple(<<PyStr(D_0101), PyStr(D_0102)>>)
          /\ values[j] = PyTuple(<<PyStr(DT_0101_10h), None>>)
          /\ values[l] = PyTuple(<<None, None>>)
    /\ field_type = "tstzrange"

\* A second case of C6: timestamp starts and no end at all make a scalar
\* timestamp column of the starts.
C6_WitnessScalar ==
    /\ AfterConvert
    /\ property.type = "date"
    /\ Len(values) = 2
    /\ values[1] = PyTuple(<<PyStr(D_0101), None>>)
    /\ values[2] = PyTuple(<<PyStr(DT_0101_10h), None>>)
    /\ field_type = "timestamp with time zone"
    /\ column = <<PyStr(D_0101), PyStr(DT_0101_10h)>>

\* C7: a people, relation or files column is a scalar (uuid, text for files)
\* when every row has at most one element, each row replaced by its element
\* or None; with two or more elements in any row it is an array (uuid[],
\* text[]) and every row is left as it is; the column has the rows' length
\* and order.
C7_ListKind == property.type \in {"people", "relation", "files"}
C7_ScalarType == IF property.type = "files" THEN "text" ELSE "uuid"
C7_ArrayType == IF property.type = "files" THEN "text[]" ELSE "uuid[]"
C7_AllAtMostOne == \A i \in DOMAIN values : Len(values[i].v) <= 1
C7_CardinalityCollapse ==
    (AfterConvert /\ C7_ListKind) =>
        /\ Len(column) = Len(values) /\ Len(values) = Len(pages)
        /\ C7_AllAtMostOne =>
              /\ field_type = C7_ScalarType
              /\ \A i \in DOMAIN values :
                    column[i] = IF Len(values[i].v) = 0 THEN None ELSE values[i].v[1]
        /\ ~C7_AllAtMostOne =>
              /\ field_type = C7_ArrayType
              /\ \A i \in DOMAIN values : column[i] = values[i]

\* Witness of C7: a people column of three rows with two, one and no element
\* is uuid[], with the short rows still lists.
C7_Witness ==
    /\ AfterConvert
    /\ property.type = "people"
    /\ Len(values) = 3
    /\ {Len(values[i].v) : i \in DOMAIN values} = {0, 1, 2}
    /\ field_type = "uuid[]"
    /\ column = values

\* A second case of C7: a files column of rows with one and no element is text.
C7_WitnessScalar ==
    /\ AfterConvert
    /\ property.type = "files"
    /\ Len(values) = 2
    /\ Len(values[1].v) = 1 /\ Len(values[2].v) = 0
    /\ field_type = "text"
    /\ column = <<values[1].v[1], None>>

\* C8: when two rows of a formula or rollup property carry different
\* subtypes, convert raises: the run ends with that exception, and no type or
\* column is returned for the property.
C8_MixedSubtypes ==
    /\ property.type \in {"formula", "rollup"}
    /\ \E i, j \in DOMAIN values : values[i].v[1].v # values[j].v[1].v
C8_MixedState ==
    C8_MixedSubtypes =>
        \/ pc = "convert"
        \/ /\ pc = "aborted"
           /\ error = "ValueError"
           /\ field_type = "None" /\ column = <<>>
           /\ field_names = <<S_id>> /\ field_types = <<"uuid">>
           /\ log_converted = <<>> /\ log_skipped = <<>>
           /\ calls = <<>>
C8_MixedStep ==
    /\ (pc = "convert" /\ C8_MixedSubtypes) => pc' = "aborted" /\ error' = "ValueError"
    /\ pc # "aborted"
C8_MixedSubtypesAreFatal == [](C8_MixedState) /\ [][C8_MixedStep]_vars

\* Witness of C8: a formula of three rows, two of subtype number and one of
\* subtype string, has ended the run.
C8_Witness ==
    /\ pc = "aborted"
    /\ error = "ValueError"
    /\ property.type = "formula"
    /\ Len(values) = 3
    /\ {values[i].v[1].v : i \in DOMAIN values} = {"number", "string"}

\* A second case of C8: a rollup with an array row and a number row.
C8_WitnessRollup ==
    /\ pc = "aborted"
    /\ error = "ValueError"
    /\ property.type = "rollup"
    /\ {values[i].v[1].v : i \in DOMAIN values} = {"array", "number"}

(***************************************************************************)
(* Properties of the assembled output (Spec).                              *)
(***************************************************************************)
\* The labels of the database, and the property a page has under a label.
Labels == {database[i].key : i \in DOMAIN database}
RawOf(i, label) == (CHOOSE e \in pages[i].properties : e.key = label).value

\* Every row of the label is the marker of an array rollup.
AllRowsArrayRollup(label) ==
    \A i \in DOMAIN pages :
        RawOf(i, label).type = "rollup" /\ RawOf(i, label).rollup.type = "array"

\* C9: what create_table receives: the column id of type uuid first, then
\* the properties that convert did not skip, in the order of their labels;
\* a property whose every row is an array rollup is in no column and no row;
\* as many rows as records, each with one entry per column, in the order of
\* the records, with the values of the columns that are kept.
C9_Reached == pc \in {"create_table", "done"} \/ calls # <<>>
C9_OutputShape ==
    C9_Reached =>
        /\ field_names[1] = S_id /\ field_types[1] = "uuid"
        /\ Len(field_names) = 1 + Len(log_converted)
        /\ Len(field_types) = Len(field_names)
        /\ Len(columns) = Len(field_names)
        /\ \A c \in DOMAIN field_types : field_types[c] # "None"
        /\ \A i, j \in DOMAIN log_converted :
              i < j => StrLess(log_converted[i], log_converted[j])
        /\ Range(log_converted) \cup Range(log_skipped) = Labels
        /\ Range(log_converted) \cap Range(log_skipped) = {}
        /\ \A l \in Labels :
              (pages # <<>> /\ AllRowsArrayRollup(l)) => l \in Range(log_skipped)
        /\ \A l \in Range(log_skipped) : AllRowsArrayRollup(l)
        /\ Len(rows) = Len(pages)
        /\ \A i \in DOMAIN rows :
              /\ Len(rows[i]) = Len(field_names)
              /\ rows[i][1] = pages[i].id
              /\ \A c \in DOMAIN log_converted :
                    RawOf(i, log_converted[c]).type = "number" =>
                        rows[i][c + 1] = RawOf(i, log_converted[c]).number
        /\ calls # <<>> =>
              /\ calls[1].field_names = field_names
              /\ calls[1].field_types = field_types
              /\ calls[1].rows = rows

\* Witness of C9: a database with a number, an array rollup and a title; two
\* records; the rollup is skipped, and the two columns left follow id in the
\* order of the labels "A" and "b".
C9_Witness ==
    /\ pc = "done"
    /\ database = DB_rollup
    /\ Len(pages) = 2
    /\ log_skipped = <<N_Rx>>
    /\ log_converted = <<N_A, N_b>>
    /\ calls[1].field_names = <<S_id, <<97>>, <<98>>>>
    /\ calls[1].field_types = <<"uuid", "text", "integer">>
    /\ Len(calls[1].rows) = 2

\* A second case of C9: the labels are sorted by code point, not in the order
\* the upstream lists them, and the column names are the sanitized labels.
C9_WitnessSorted ==
    /\ pc = "done"
    /\ database = DB_plain
    /\ Len(pages) = 2
    /\ log_converted = <<N_b, N_Ete2>>
    /\ field_names = <<S_id, <<98>>, <<101, 116, 101, 95, 50>>>>

(***************************************************************************)
(* Runs over an empty record set (Spec).                                   *)
(***************************************************************************)
\* The fetch is complete and has returned no record: the loop over the
\* properties has begun (fidx >= 1) with pages empty.
C11_EmptyRecordSet == fidx >= 1 /\ pages = <<>>

\* The field list holds a formula or a rollup.
C11_HasComputedField ==
    \E i \in DOMAIN database : database[i].value.type \in {"formula", "rollup"}

\* The kinds that convert maps to a type whatever the rows are.
C11_PlainKinds ==
    {"title", "rich_text", "number", "select", "multi_select", "date", "people",
     "files", "checkbox", "url", "email", "phone_number", "relation",
     "created_time", "created_by", "last_edited_time", "last_edited_by"}

\* Every field is of a plain kind and is listed under its own name.
C11_AllFieldsPlain ==
    \A i \in DOMAIN database :
        /\ database[i].value.type \in C11_PlainKinds
        /\ database[i].key = database[i].value.name

\* The subtypes observed over all rows of the property being converted.
C11_ObservedSubtypes == {values[i].v[1].v : i \in DOMAIN values}

\* convert has returned for a formula or rollup only if exactly one subtype
\* was observed.
C11_OneSubtype ==
    (pc = "append" /\ property.type \in {"formula", "rollup"}) =>
        Cardinality(C11_ObservedSubtypes) = 1

\* A run over no record with a formula or rollup field never comes to the
\* call of create_table, and when it stops at the formula or rollup itself
\* the error is the ValueError of unpacking the empty set of subtypes.
C11_EmptyComputedAborts ==
    (C11_EmptyRecordSet /\ C11_HasComputedField) =>
        /\ calls = <<>>
        /\ pc \in {"for", "convert", "append", "aborted"}
        /\ pc = "convert" => ENABLED FieldConvert
        /\ (pc = "aborted" /\ property.type \in {"formula", "rollup"}
                /\ name = property.name) => error = "ValueError"

\* The run is on its way to create_table: it does not abort before the call,
\* it can take its next step, and the call it makes carries id and one column
\* per field that is not skipped, with zero rows.
C11_ReachesLoaderWithZeroRows ==
    /\ pc = "aborted" => calls # <<>>
    /\ calls = <<>> => error = "None" /\ ENABLED AssembleNext
    /\ pc \in {"done", "aborted"} =>
          /\ Len(calls) = 1
          /\ calls[1].rows = <<>>
          /\ Len(calls[1].field_names) = 1 + Len(database)

\* C11 as stated: a formula or rollup is converted only when exactly one
\* subtype is observed over all rows; a run over an empty record set aborts
\* before create_table when the field list holds a formula or a rollup, and
\* reaches create_table with zero rows when it holds none.
C11_EmptyRunAsStated ==
    /\ C11_OneSubtype
    /\ C11_EmptyComputedAborts
    /\ (C11_EmptyRecordSet /\ ~C11_HasComputedField) => C11_ReachesLoaderWithZeroRows

\* C11, amended: the same, where the run over an empty record set without
\* formula or rollup reaches create_table with zero rows provided that every
\* field is of a kind convert supports and is listed under its own name; a
\* field of another kind, or listed under another name, aborts that run too.
C11_EmptyRun ==
    /\ C11_OneSubtype
    /\ C11_EmptyComputedAborts
    /\ (C11_EmptyRecordSet /\ C11_AllFieldsPlain) => C11_ReachesLoaderWithZeroRows
    /\ (C11_EmptyRecordSet /\ ~C11_AllFieldsPlain) =>
          calls = <<>> /\ pc \notin {"create_table", "done"}

\* Witness of C11: no record and a field list with a title and a formula; the
\* title is converted, the formula raises ValueError, and create_table is
\* not called.
C11_Witness ==
    /\ C11_EmptyRecordSet
    /\ database = DB_formula
    /\ pc = "aborted"
    /\ error = "ValueError"
    /\ property.type = "formula"
    /\ log_converted = <<N_A>>
    /\ calls = <<>>

\* The same with a rollup between a title and a number.
C11_WitnessRollup ==
    /\ C11_EmptyRecordSet
    /\ database = DB_rollup
    /\ pc = "aborted"
    /\ error = "ValueError"
    /\ property.type = "rollup"
    /\ calls = <<>>

\* No record and only plain fields: create_table is called with the columns
\* id, b and ete_2 and zero rows.
C11_WitnessLoader ==
    /\ C11_EmptyRecordSet
    /\ database = DB_plain
    /\ pc = "done"
    /\ calls[1].field_types = <<"uuid", "integer", "text">>
    /\ calls[1].rows = <<>>

\* No record and a field of a kind convert does not support: the run aborts
\* although the field list holds neither formula nor rollup.
C11_WitnessUnsupported ==
    /\ C11_EmptyRecordSet
    /\ database = DB_status
    /\ ~C11_HasComputedField
    /\ pc = "aborted"
    /\ error = "NotImplementedError"

====
